---- MODULE Spec2Model ----
(***************************************************************************)
(* Cross-clip speaker identity resolution of                               *)
(* src/services/speaker_diarization.py (SpeakerDiarizationService).        *)
(*                                                                         *)
(* Speaker labels are single letters; a label is modelled by its offset    *)
(* from 'A' (0 = 'A', 1 = 'B', ...), so chr(ord(x) + 1) is x + 1.          *)
(* Times are milliseconds.  A Python dict is modelled, where its iteration *)
(* order is read by the code, as a sequence of [key, val] records with     *)
(* distinct keys in insertion order, and as a function otherwise.          *)
(***************************************************************************)
EXTENDS Integers, Sequences, FiniteSets, TLC

\* ------------------------------------------------------------------ bounds
MaxMonoUtt == 4      \* utterances per list given to find_longest_monologues alone
MaxClips == 2        \* clips per run of process_clips_async
MaxUtt == 2          \* utterances per clip transcript in a run
MaxPersons == 3      \* physical speakers (voices) in a run
MaxFaults == 1       \* failing collaborators (clips or dependencies) in a run
MaxRuns == 2         \* calls of process_clips_async on one service instance
MaxLongClips == 14   \* clips of a long run of uniform clips
MaxChainClips == 3   \* clips of a run in which every clip is sampled and resolved
MaxSeconds == 1      \* clock seconds that pass while the routes are called
MaxUsers == 1        \* users calling the routes
MaxFiles == 2        \* audio files of one upload
MaxRequests == 3     \* requests the routes receive

LocalLabels == {0, 1}            \* 'A', 'B': the labels the transcription gives
Durations == {5000}              \* utterance lengths in a run, ms
MonoDurations == {5000, 10000}   \* utterance lengths for find_longest_monologues alone
Gaps == {0, 5000}                \* silence before an utterance, ms
MonoGaps == {0, 5000, -5000}     \* the same, or speech over the utterance before
Persons == 1..MaxPersons
NoLabel == -1                    \* None / key absent

\* ------------------------------------------------------------------ dicts
DictHas(d, k) == \E i \in DOMAIN d : d[i].key = k
DictGet(d, k) == d[CHOOSE i \in DOMAIN d : d[i].key = k].val
DictSet(d, k, v) ==
    IF DictHas(d, k)
    THEN [i \in DOMAIN d |-> IF d[i].key = k THEN [key |-> k, val |-> v] ELSE d[i]]
    ELSE Append(d, [key |-> k, val |-> v])
DictKeys(d) == {d[i].key : i \in DOMAIN d}

\* ------------------------------------------------------------------ inputs
\* An utterance of a transcript.  person is the physical speaker (ground truth,
\* never read by the service); original_speaker is NoLabel until the service
\* annotates the utterance.
Utt(spk, start, dur, person) ==
    [speaker |-> spk, start |-> start, end |-> start + dur,
     original_speaker |-> NoLabel, person |-> person]

\* Utterance lists sorted by start: each utterance starts at the end of the one
\* before it, after a gap, or (negative gap) while the one before it is spoken;
\* the first starts at 0.
RECURSIVE UttLists(_, _, _, _)
UttLists(n, durs, gaps, persons) ==
    IF n = 0 THEN {<<>>}
    ELSE LET shorter == UttLists(n - 1, durs, gaps, persons)
         IN shorter \cup
            { Append(l, Utt(s, (IF Len(l) = 0 THEN 0 ELSE l[Len(l)].end + g), d, p)) :
                l \in {x \in shorter : Len(x) = n - 1},
                s \in LocalLabels, g \in (IF n = 1 THEN {0} ELSE gaps), d \in durs, p \in persons }

\* ------------------------------------------------- find_longest_monologues
MinLength(lst) ==
    CHOOSE m \in {lst[i].length : i \in DOMAIN lst} :
        \A i \in DOMAIN lst : m <= lst[i].length

\* list.remove(min(list, key=length)): the first entry of minimal length goes
RemoveMin(lst) ==
    LET k == CHOOSE i \in DOMAIN lst :
                 /\ lst[i].length = MinLength(lst)
                 /\ \A j \in 1..(i - 1) : lst[j].length # MinLength(lst)
    IN [i \in 1..(Len(lst) - 1) |-> IF i < k THEN lst[i] ELSE lst[i + 1]]

\* "Keep only the longest monologue per speaker"
KeepLongestSkipEqualOrLonger(longest, speaker, monologue) ==
    LET lst == DictGet(longest, speaker)
        entry == [length |-> monologue.end - monologue.start,
                  start |-> monologue.start, end |-> monologue.end]
    IN IF Len(lst) < 1 THEN DictSet(longest, speaker, Append(lst, entry)) ELSE longest

KeepLongest(longest, speaker, monologue) ==
    LET lst == DictGet(longest, speaker)
        monologue_length == monologue.end - monologue.start
        new_entry == [length |-> monologue_length,
                      start |-> monologue.start, end |-> monologue.end]
    IN IF Len(lst) < 1 \/ monologue_length > MinLength(lst)
       THEN DictSet(longest, speaker,
                    Append(IF Len(lst) = 1 THEN RemoveMin(lst) ELSE lst, new_entry))
       ELSE longest

\* the monologue is extended whenever the times meet, whoever spoke last
ScanStepTimeOnly(st, utterance) ==
    LET speaker == utterance.speaker
    IN IF ~DictHas(st.current_monologue, speaker)
       THEN [current_monologue |-> DictSet(st.current_monologue, speaker,
                                     [start |-> utterance.start, end |-> utterance.end]),
             longest_monologues |-> DictSet(st.longest_monologues, speaker, <<>>),
             last_speaker |-> speaker]
       ELSE LET cur == DictGet(st.current_monologue, speaker)
            IN IF cur.end = utterance.start
               THEN [st EXCEPT !.current_monologue =
                                  DictSet(@, speaker, [cur EXCEPT !.end = utterance.end]),
                               !.last_speaker = speaker]
               ELSE [current_monologue |-> DictSet(st.current_monologue, speaker,
                                     [start |-> utterance.start, end |-> utterance.end]),
                     longest_monologues |-> KeepLongest(st.longest_monologues, speaker, cur),
                     last_speaker |-> speaker]

\* One iteration of the loop over the utterances
ScanStep(st, utterance) ==
    LET speaker == utterance.speaker
    IN IF ~DictHas(st.current_monologue, speaker)
       THEN [current_monologue |-> DictSet(st.current_monologue, speaker,
                                     [start |-> utterance.start, end |-> utterance.end]),
             longest_monologues |-> DictSet(st.longest_monologues, speaker, <<>>),
             last_speaker |-> speaker]
       ELSE LET cur == DictGet(st.current_monologue, speaker)
            IN IF cur.end = utterance.start /\ st.last_speaker = speaker
               THEN [st EXCEPT !.current_monologue =
                                  DictSet(@, speaker, [cur EXCEPT !.end = utterance.end]),
                               !.last_speaker = speaker]
               ELSE [current_monologue |-> DictSet(st.current_monologue, speaker,
                                     [start |-> utterance.start, end |-> utterance.end]),
                     longest_monologues |-> KeepLongest(st.longest_monologues, speaker, cur),
                     last_speaker |-> speaker]

RECURSIVE ScanUtterances(_, _, _)
ScanUtterances(utterances, i, st) ==
    IF i > Len(utterances) THEN st
    ELSE ScanUtterances(utterances, i + 1, ScanStep(st, utterances[i]))

\* "Check the last monologue for each speaker"
RECURSIVE CheckLast(_, _, _)
CheckLast(current, i, longest) ==
    IF i > Len(current) THEN longest
    ELSE CheckLast(current, i + 1, KeepLongest(longest, current[i].key, current[i].val))

\* The dict speaker -> list of (length, monologue), in order of first appearance
find_longest_monologues(utterances) ==
    LET st == ScanUtterances(utterances, 1,
                  [current_monologue |-> <<>>, longest_monologues |-> <<>>,
                   last_speaker |-> NoLabel])
    IN CheckLast(st.current_monologue, 1, st.longest_monologues)

\* ------------------------------------------------------------------ state
VARIABLES
    monoInput, monoResult,      \* find_longest_monologues alone: argument, return value
    sampleAudio, sampleResult,  \* clip_and_store_utterances alone: audio file, return value
    clock,                      \* int(datetime.now().timestamp()), in seconds
    heap,                       \* the session_data dicts ever created, by identity
    active_diarization_sessions, \* session id -> the session_data dict it names
    upload_dirs,                \* the upload directories that exist
    handlers,                   \* POST /process requests between check and start
    threads,                    \* the background_processing threads
    last_response,              \* the answer to the latest request
    budget,                     \* requests still to come
    transcripts,                \* what get_transcript finds for clip_transcript_ids[k]
    audio,                      \* the file behind audio_files[k]
    env,                        \* PYDUB_AVAILABLE, FFMPEG_AVAILABLE, NUMPY_AVAILABLE
    is_nemo_available,          \* self.is_nemo_available (and self.speaker_model)
    verify_fails,               \* local labels whose segment makes verify_speakers raise
    oracleMode,                 \* how the similarity score relates to the voices
    files,                      \* the file system: path -> content
    clip_utterances,            \* self.clip_utterances
    speaker_identity_map,       \* self.speaker_identity_map
    previous_speaker_clips,     \* self.previous_speaker_clips
    pc, clip_index,             \* position in process_clips_async
    progress,                   \* the notifications given to progress_callback
    results,                    \* the value returned, NoResults before
    raised,                     \* the exception the caller observes, "" if none
    run, firstOutcome,          \* the call in progress and the outcome of the one before
    assignLog, compareLog       \* history: resolutions and comparisons of this call

monoVars == <<monoInput, monoResult>>
sampleVars == <<sampleAudio, sampleResult>>
webVars == <<clock, heap, active_diarization_sessions, upload_dirs, handlers, threads,
             last_response, budget>>
inputVars == <<transcripts, audio, env, is_nemo_available, verify_fails, oracleMode>>
selfVars == <<clip_utterances, speaker_identity_map, previous_speaker_clips>>
callVars == <<pc, clip_index, progress, results, raised>>
histVars == <<run, firstOutcome, assignLog, compareLog>>
vars == <<monoVars, sampleVars, webVars, inputVars, selfVars, callVars, histVars, files>>

EmptyMap == [l \in {} |-> NoLabel]
NoResults == [success |-> FALSE]
NotCalled == <<[key |-> NoLabel, val |-> <<>>]>>
NotSampled == [raised |-> FALSE, files |-> <<>>, utterance_clips |-> NotCalled]
Range(f) == {f[x] : x \in DOMAIN f}
Max(S) == CHOOSE m \in S : \A x \in S : x <= m

\* clip_and_store_utterances has not been called on its own
SampleIdle ==
    /\ sampleAudio = [kind |-> "none", length |-> 0, export_ok |-> TRUE]
    /\ sampleResult = NotSampled

\* No route has been called
NoResponse == [route |-> "none"]
WebIdle ==
    /\ clock = 0
    /\ heap = <<>>
    /\ active_diarization_sessions = <<>>
    /\ upload_dirs = {}
    /\ handlers = <<>>
    /\ threads = <<>>
    /\ last_response = NoResponse
    /\ budget = 0

\* ---------------------------------------------------- the inputs of a run
OracleModes == {"exact", "never", "always"}

\* Within a clip a label stands for one voice and a voice has one label
OneVoicePerLabel(l) ==
    \A i, j \in DOMAIN l : (l[i].speaker = l[j].speaker) <=> (l[i].person = l[j].person)

ClipUtterances == {l \in UttLists(MaxUtt, Durations, Gaps, Persons) : OneVoicePerLabel(l)}

Transcripts ==
    {[status |-> "error", utterances |-> <<>>]} \cup
    {[status |-> "completed", utterances |-> l] : l \in ClipUtterances}

LongAudio == MaxUtt * 10000      \* no utterance of a clip ends later
ShortAudio == CHOOSE d \in Durations : TRUE   \* ends after the first utterance
GoodAudio == [kind |-> "ok", length |-> LongAudio, export_ok |-> TRUE]
AudioFiles ==
    {GoodAudio,
     [kind |-> "missing", length |-> 0, export_ok |-> TRUE],     \* no such file
     [kind |-> "corrupt", length |-> 0, export_ok |-> TRUE],     \* no loader decodes it
     [kind |-> "ok", length |-> ShortAudio, export_ok |-> TRUE],
     [kind |-> "ok", length |-> LongAudio, export_ok |-> FALSE]} \* clip.export raises

GoodEnv == [pydub |-> TRUE, ffmpeg |-> TRUE, numpy |-> TRUE]
Envs == {GoodEnv, [GoodEnv EXCEPT !.pydub = FALSE], [GoodEnv EXCEPT !.ffmpeg = FALSE],
         [GoodEnv EXCEPT !.numpy = FALSE]}

FaultCount(ts, as, e, vf) ==
    Cardinality({k \in DOMAIN ts : ts[k].status = "error"})
    + Cardinality({k \in DOMAIN as : as[k] # GoodAudio})
    + (IF e = GoodEnv THEN 0 ELSE 1)
    + Cardinality(vf)
    + (IF DOMAIN as = DOMAIN ts THEN 0 ELSE 1)

\* The voices of a run in order of first appearance
RECURSIVE VoicesInOrder(_, _, _, _)
VoicesInOrder(ts, k, i, acc) ==
    IF k \notin DOMAIN ts THEN acc
    ELSE IF i > Len(ts[k].utterances) THEN VoicesInOrder(ts, k + 1, 1, acc)
    ELSE LET p == ts[k].utterances[i].person
         IN VoicesInOrder(ts, k, i + 1,
                IF \E j \in DOMAIN acc : acc[j] = p THEN acc ELSE Append(acc, p))

\* Voices are interchangeable: they are numbered in order of first appearance.
\* Only the "exact" oracle hears them; under the others a voice is its label.
VoicesNamed(ts, mode) ==
    IF mode = "exact"
    THEN LET v == VoicesInOrder(ts, 0, 1, <<>>) IN \A j \in DOMAIN v : v[j] = j
    ELSE \A k \in DOMAIN ts : \A i \in DOMAIN ts[k].utterances :
             ts[k].utterances[i].person = ts[k].utterances[i].speaker + 1

\* ------------------------------------------------------------ the oracle
\* Whether the similarity score of two decodable segments exceeds the threshold
Similar(c1, c2) ==
    CASE oracleMode = "exact" -> c1.person = c2.person
      [] oracleMode = "never" -> FALSE
      [] oracleMode = "always" -> TRUE

\* AudioSegment.from_wav / verify_speakers read a WAV file
Readable(fs, path) == path \in DOMAIN fs /\ ~path.mock

\* speaker_model.verify_speakers raises: a file it cannot read, or a segment the
\* model fails on
VerifyRaises(fs, utterance_clip, reference_file) ==
    \/ ~Readable(fs, utterance_clip)
    \/ ~Readable(fs, reference_file)
    \/ utterance_clip.speaker \in verify_fails

_fallback_speaker_comparison(fs, clip1, clip2) ==
    IF ~env.pydub \/ ~env.numpy THEN FALSE
    ELSE IF ~Readable(fs, clip1) \/ ~Readable(fs, clip2) THEN FALSE   \* except: False
    ELSE Similar(fs[clip1], fs[clip2])                                \* score > 0.6

compare_embeddings(fs, utterance_clip, reference_file) ==
    IF ~is_nemo_available
    THEN _fallback_speaker_comparison(fs, utterance_clip, reference_file)
    ELSE IF VerifyRaises(fs, utterance_clip, reference_file)         \* except:
         THEN _fallback_speaker_comparison(fs, utterance_clip, reference_file)
         ELSE Similar(fs[utterance_clip], fs[reference_file])         \* score > 0.5

\* The implementation whose answer compare_embeddings returns
DecidedBy(fs, utterance_clip, reference_file) ==
    IF is_nemo_available /\ ~VerifyRaises(fs, utterance_clip, reference_file)
    THEN "embedding" ELSE "fallback"

\* The similarity computation of the implementation the service is configured
\* with raises
OracleRaises(fs, utterance_clip, reference_file) ==
    IF is_nemo_available THEN VerifyRaises(fs, utterance_clip, reference_file)
    ELSE /\ env.pydub /\ env.numpy
         /\ ~Readable(fs, utterance_clip) \/ ~Readable(fs, reference_file)

\* ------------------------------------------------ clip_and_store_utterances
\* <audio dir>/speaker_clips/<speaker>_monologue_<start>_<end>.wav or ..._mock.txt;
\* the audio files of a run lie in one upload directory
ClipPath(speaker, start_ms, end_ms, mock) ==
    [dir |-> "speaker_clips", speaker |-> speaker, start |-> start_ms, end |-> end_ms,
     mock |-> mock]

WriteFile(fs, path, content) ==
    [q \in DOMAIN fs \cup {path} |-> IF q = path THEN content ELSE fs[q]]

ClipInfo(path, start_ms, end_ms, speaker, mock) ==
    [clip_filename |-> path, start |-> start_ms, end |-> end_ms, speaker |-> speaker,
     duration_ms |-> end_ms - start_ms, mock_mode |-> mock]

\* The voice heard in clip k under a local label (ground truth)
VoiceOf(k, speaker) ==
    LET u == transcripts[k].utterances
    IN u[CHOOSE i \in DOMAIN u : u[i].speaker = speaker].person

\* for speaker, monologues in longest_monologues.items(): for _, monologue in monologues
RECURSIVE Monologues(_, _)
Monologues(longest_monologues, i) ==
    IF i > Len(longest_monologues) THEN <<>>
    ELSE [j \in 1..Len(longest_monologues[i].val) |->
             [speaker |-> longest_monologues[i].key,
              monologue |-> longest_monologues[i].val[j]]]
         \o Monologues(longest_monologues, i + 1)

RECURSIVE MockClips(_, _, _, _)
MockClips(k, items, i, acc) ==
    IF i > Len(items) THEN acc
    ELSE LET speaker == items[i].speaker
             start_ms == items[i].monologue.start
             end_ms == items[i].monologue.end
             clip_path == ClipPath(speaker, start_ms, end_ms, TRUE)
         IN MockClips(k, items, i + 1,
                [raised |-> FALSE,
                 files |-> WriteFile(acc.files, clip_path,
                                     [clip |-> k, person |-> VoiceOf(k, speaker)]),
                 utterance_clips |-> Append(acc.utterance_clips,
                     ClipInfo(clip_path, start_ms, end_ms, speaker, TRUE))])

_simplified_audio_processing(fs, k, longest_monologues) ==
    MockClips(k, Monologues(longest_monologues, 1), 1,
              [raised |-> FALSE, files |-> fs, utterance_clips |-> <<>>])

\* only the start is held against the audio length
TimingValidStartOnly(start_ms, end_ms, audio_len) ==
    /\ ~(start_ms >= audio_len)
    /\ ~(end_ms <= start_ms)

\* "Validate timing"
TimingValid(start_ms, end_ms, audio_len) ==
    /\ ~(start_ms >= audio_len \/ end_ms > audio_len)
    /\ ~(end_ms <= start_ms)

RECURSIVE ExportClips(_, _, _, _, _)
ExportClips(k, a, items, i, acc) ==
    IF i > Len(items) THEN acc
    ELSE LET speaker == items[i].speaker
             start_ms == items[i].monologue.start
             end_ms == items[i].monologue.end
             clip_path == ClipPath(speaker, start_ms, end_ms, FALSE)
         IN ExportClips(k, a, items, i + 1,
                IF ~TimingValid(start_ms, end_ms, a.length) THEN acc      \* continue
                ELSE IF ~a.export_ok THEN acc                             \* except: continue
                ELSE [raised |-> FALSE,
                      files |-> WriteFile(acc.files, clip_path,
                                          [clip |-> k, person |-> VoiceOf(k, speaker)]),
                      utterance_clips |-> Append(acc.utterance_clips,
                          ClipInfo(clip_path, start_ms, end_ms, speaker, FALSE))])

\* [raised, files, utterance_clips]: raised stands for ProcessingError
clip_and_store_utterances(fs, k, a, longest_monologues) ==
    IF ~env.pydub
    THEN [raised |-> TRUE, files |-> fs, utterance_clips |-> <<>>]
    ELSE IF ~env.ffmpeg                  \* and _setup_ffmpeg_path() finds none
    THEN _simplified_audio_processing(fs, k, longest_monologues)
    ELSE IF a.kind = "missing"           \* "Audio file not found", re-raised
    THEN [raised |-> TRUE, files |-> fs, utterance_clips |-> <<>>]
    ELSE IF a.kind = "corrupt"           \* "All audio loading methods failed"
    THEN _simplified_audio_processing(fs, k, longest_monologues)
    ELSE ExportClips(k, a, Monologues(longest_monologues, 1), 1,
                     [raised |-> FALSE, files |-> fs, utterance_clips |-> <<>>])

\* "Create audio clips for speaker verification": one call per speaker
RECURSIVE SampleSpeakers(_, _, _, _, _)
SampleSpeakers(k, a, longest_monologues, i, acc) ==
    IF i > Len(longest_monologues) \/ acc.raised THEN acc
    ELSE LET speaker == longest_monologues[i].key
             r == clip_and_store_utterances(acc.files, k, a, <<longest_monologues[i]>>)
         IN SampleSpeakers(k, a, longest_monologues, i + 1,
                IF r.raised THEN [acc EXCEPT !.raised = TRUE]
                ELSE [raised |-> FALSE,
                      files |-> r.files,
                      current_speaker_clips |->
                          IF r.utterance_clips # <<>>
                          THEN DictSet(acc.current_speaker_clips, speaker,
                                       r.utterance_clips[1].clip_filename)
                          ELSE acc.current_speaker_clips])

\* ------------------------------------------- _compare_speakers_across_clips
IsAlpha(x) == x \in 0..25 \/ x \in 32..57        \* 'A'..'Z', 'a'..'z'

\* "No match found - assign new unique label"
NewLabel(identity_map) ==
    LET existing_speakers == Range(identity_map)
    IN IF existing_speakers # {}
       THEN LET last_speaker == Max(existing_speakers)
            IN IF IsAlpha(last_speaker) THEN last_speaker + 1
               ELSE Cardinality(existing_speakers)
       ELSE 0

\* The position in previous_speaker_clips of the first stored clip that
\* compare_embeddings takes for the same speaker, 0 if none
RECURSIVE FirstMatch(_, _, _, _)
FirstMatch(fs, new_clip, previous, i) ==
    IF i > Len(previous) THEN 0
    ELSE IF compare_embeddings(fs, new_clip, previous[i].val) THEN i
    ELSE FirstMatch(fs, new_clip, previous, i + 1)

MapSet(identity_map, k, v) ==
    [x \in DOMAIN identity_map \cup {k} |-> IF x = k THEN v ELSE identity_map[x]]

\* The comparisons run for one new speaker, for the history
Compared(fs, k, new_speaker, new_clip, previous, hit) ==
    [i \in 1..(IF hit = 0 THEN Len(previous) ELSE hit) |->
        [clip |-> k, new_speaker |-> new_speaker, base_speaker |-> previous[i].key,
         new_content |-> fs[new_clip],
         base_content |-> IF previous[i].val \in DOMAIN fs THEN fs[previous[i].val]
                          ELSE [clip |-> -1, person |-> 0],
         by |-> DecidedBy(fs, new_clip, previous[i].val),
         threw |-> OracleRaises(fs, new_clip, previous[i].val),
         verdict |-> (i = hit)]]

\* self.speaker_identity_map.get(base_speaker, base_speaker)
Unified(identity_map, base_speaker) ==
    IF base_speaker \in DOMAIN identity_map THEN identity_map[base_speaker]
    ELSE base_speaker

\* One iteration of "for new_speaker, new_clip in current_speaker_clips.items()"
ResolveSpeaker(fs, k, previous, st, new_speaker, new_clip) ==
    LET hit == FirstMatch(fs, new_clip, previous, 1)
        label == IF hit > 0 THEN Unified(st.identity_map, previous[hit].key)
                 ELSE NewLabel(st.identity_map)
    IN [identity_map |-> MapSet(st.identity_map, new_speaker, label),
        assigned |-> Append(st.assigned,
            [clip |-> k, speaker |-> new_speaker, label |-> label,
             person |-> VoiceOf(k, new_speaker),
             how |-> IF hit > 0 THEN "matched" ELSE "new",
             base |-> IF hit > 0 THEN previous[hit].key ELSE NoLabel]),
        compared |-> st.compared \o Compared(fs, k, new_speaker, new_clip, previous, hit)]

RECURSIVE ResolveSpeakers(_, _, _, _, _, _)
ResolveSpeakers(fs, k, previous, current_speaker_clips, i, st) ==
    IF i > Len(current_speaker_clips) THEN st
    ELSE ResolveSpeakers(fs, k, previous, current_speaker_clips, i + 1,
             ResolveSpeaker(fs, k, previous, st,
                            current_speaker_clips[i].key, current_speaker_clips[i].val))

\* previous_speaker_clips.update(current_speaker_clips)
RECURSIVE DictUpdate(_, _, _)
DictUpdate(d, other, i) ==
    IF i > Len(other) THEN d
    ELSE DictUpdate(DictSet(d, other[i].key, other[i].val), other, i + 1)

\* ------------------------------------------------ _update_utterance_speakers
\* the labels are looked up and not written back
_update_utterance_speakers_unwritten(utterances, identity_map) == utterances

_update_utterance_speakers(utterances, identity_map) ==
    [i \in DOMAIN utterances |->
        LET original_speaker == utterances[i].speaker
        IN IF original_speaker \in DOMAIN identity_map
           THEN [utterances[i] EXCEPT !.speaker = identity_map[original_speaker],
                                      !.original_speaker = original_speaker]
           ELSE utterances[i]]

\* --------------------------------------------- _generate_speaker_statistics
RECURSIVE SumDurations(_, _, _)
SumDurations(utterances, i, speaker) ==
    IF i > Len(utterances) THEN 0
    ELSE (IF utterances[i].speaker = speaker
          THEN utterances[i].end - utterances[i].start ELSE 0)
         + SumDurations(utterances, i + 1, speaker)

RECURSIVE SumOver(_, _, _)
SumOver(clips, utts, speaker) ==
    IF clips = {} THEN 0
    ELSE LET c == CHOOSE x \in clips : TRUE
         IN SumDurations(utts[c], 1, speaker) + SumOver(clips \ {c}, utts, speaker)

\* The sums up to one minute that lie halfway between two hundredths of a minute
\* and whose quotient by 60000, as an IEEE double, round() takes down
HalvesTakenDown ==
    {
     900, 2700, 4500, 6300, 7500, 8700, 9300, 10500,
     11100, 12300, 12900, 14100, 14700, 17100, 17700, 18300,
     20700, 21300, 21900, 24900, 25500, 26100, 28500, 29100,
     29700, 33900, 34500, 35100, 35700, 36300, 36900, 37500,
     41700, 42300, 42900, 43500, 44100, 44700, 48900, 49500,
     50100, 50700, 51300, 51900, 56700, 57300, 57900, 58500,
     59100, 59700}

\* the hundredths of a minute that are complete
RoundMinutesDown(ms) == ms \div 600

\* round(ms / (1000 * 60), 2), in hundredths of a minute
RoundMinutes(ms) ==
    IF ms \in HalvesTakenDown THEN ms \div 600 ELSE (ms + 300) \div 600

CountUtterances(utts, speaker) ==
    Cardinality({<<c, i>> \in UNION {{<<c, i>> : i \in DOMAIN utts[c]} : c \in DOMAIN utts} :
                    utts[c][i].speaker = speaker})

_generate_speaker_statistics(utts, identity_map) ==
    LET speakers == UNION {{utts[c][i].speaker : i \in DOMAIN utts[c]} : c \in DOMAIN utts}
    IN [total_speakers_detected |-> Cardinality(DOMAIN identity_map),
        unique_speakers_identified |-> Cardinality(Range(identity_map)),
        speaker_mapping |-> identity_map,
        speaker_talk_time |->
            [s \in speakers |-> RoundMinutes(SumOver(DOMAIN utts, utts, s))],
        speaker_utterance_count |-> [s \in speakers |-> CountUtterances(utts, s)]]

\* -------------------------------------------------------- _cleanup_temp_files
\* glob.glob("*_monologue_*.wav"): the WAV clips of the working directory
_cleanup_temp_files(fs) ==
    [q \in {x \in DOMAIN fs : ~(x.dir = "." /\ ~x.mock)} |-> fs[q]]

\* ------------------------------------------------------ process_clips_async
Note(stage, value) == [stage |-> stage, progress |-> value]

\* int((clip_index / total_clips) * 90) in IEEE double arithmetic: the quotient
\* is rounded before it is multiplied, so for these pairs (all there are up to
\* 30 clips) the product falls just short of the integer 90 * k / n
FloatShort == {<<7, 10>>, <<14, 20>>, <<21, 30>>}
ClipProgress(k, n) ==
    IF <<k, n>> \in FloatShort THEN ((k * 90) \div n) - 1 ELSE (k * 90) \div n
total_clips == Cardinality(DOMAIN transcripts)

Init ==
    /\ monoInput = <<>>
    /\ monoResult = NotCalled
    /\ SampleIdle
    /\ WebIdle
    /\ oracleMode \in OracleModes
    /\ \E n \in 0..MaxClips :
          /\ transcripts \in [0..(n - 1) -> Transcripts]
          /\ VoicesNamed(transcripts, oracleMode)
          /\ env \in Envs
          /\ is_nemo_available \in BOOLEAN
          /\ verify_fails \in {{}} \cup
                 (IF is_nemo_available THEN {{l} : l \in LocalLabels} ELSE {})
          /\ \E m \in {n, n + 1} :
                /\ audio \in [0..(m - 1) -> AudioFiles]
                /\ FaultCount(transcripts, audio, env, verify_fails) <= MaxFaults
    /\ files = [q \in {} |-> 0]
    /\ clip_utterances = <<>>
    /\ speaker_identity_map = EmptyMap
    /\ previous_speaker_clips = <<>>
    /\ pc = "ready"
    /\ clip_index = 0
    /\ progress = <<>>
    /\ results = NoResults
    /\ raised = ""
    /\ run = 1
    /\ firstOutcome = [pc |-> "none"]
    /\ assignLog = <<>>
    /\ compareLog = <<>>

\* "Reset processing state"
ResetKeep(utts, identity_map, previous) ==
    [clip_utterances |-> utts, speaker_identity_map |-> identity_map,
     previous_speaker_clips |-> previous]

ResetState(utts, identity_map, previous) ==
    [clip_utterances |-> <<>>, speaker_identity_map |-> EmptyMap,
     previous_speaker_clips |-> <<>>]

\* The call up to the loop over the clips
Start ==
    /\ pc = "ready"
    /\ assignLog' = <<>>
    /\ compareLog' = <<>>
    /\ IF Cardinality(DOMAIN transcripts) # Cardinality(DOMAIN audio)
       THEN \* ValidationError, caught by the handler's own except clause
            /\ progress' = Append(progress, Note("error", 0))
            /\ raised' = "ProcessingError"
            /\ pc' = "raised"
            /\ UNCHANGED <<clip_index, results, selfVars>>
       ELSE LET fresh == ResetState(clip_utterances, speaker_identity_map,
                                    previous_speaker_clips)
            IN /\ progress' = Append(progress, Note("initialization", 0))
               /\ clip_utterances' = fresh.clip_utterances
               /\ speaker_identity_map' = fresh.speaker_identity_map
               /\ previous_speaker_clips' = fresh.previous_speaker_clips
               /\ pc' = "loop"
               /\ clip_index' = 0
               /\ UNCHANGED <<results, raised>>
    /\ UNCHANGED <<monoVars, sampleVars, webVars, inputVars, files, run, firstOutcome>>

\* every baseline speaker filed under the first label
BaselineOneLabel(k, longest_monologues) ==
    [identity_map |-> [s \in DictKeys(longest_monologues) |-> longest_monologues[1].key],
     assigned |-> [i \in DOMAIN longest_monologues |->
                     [clip |-> k, speaker |-> longest_monologues[i].key,
                      label |-> longest_monologues[1].key,
                      person |-> VoiceOf(k, longest_monologues[i].key),
                      how |-> "baseline", base |-> NoLabel]],
     compared |-> <<>>]

\* "First clip - establish baseline speakers"
Baseline(k, longest_monologues) ==
    [identity_map |-> [s \in DictKeys(longest_monologues) |-> s],
     assigned |-> [i \in DOMAIN longest_monologues |->
                     [clip |-> k, speaker |-> longest_monologues[i].key,
                      label |-> longest_monologues[i].key,
                      person |-> VoiceOf(k, longest_monologues[i].key),
                      how |-> "baseline", base |-> NoLabel]],
     compared |-> <<>>]

\* One iteration of the loop over the clips
ProcessClip ==
    /\ pc = "loop"
    /\ clip_index < total_clips
    /\ LET k == clip_index
           noted == Append(progress, Note("processing_clip", ClipProgress(k, total_clips)))
           transcript == transcripts[k]
           utterances == transcript.utterances
           longest_monologues == find_longest_monologues(utterances)
           sampled == SampleSpeakers(k, audio[k], longest_monologues, 1,
                          [raised |-> FALSE, files |-> files,
                           current_speaker_clips |-> <<>>])
           current_speaker_clips == sampled.current_speaker_clips
           resolved ==
               IF k = 0 THEN Baseline(k, longest_monologues)
               ELSE ResolveSpeakers(sampled.files, k, previous_speaker_clips,
                        current_speaker_clips, 1,
                        [identity_map |-> speaker_identity_map,
                         assigned |-> <<>>, compared |-> <<>>])
       IN IF transcript.status = "error"
          THEN \* get_transcript raises ProcessingError
               /\ progress' = Append(noted, Note("error", 0))
               /\ raised' = "ProcessingError"
               /\ pc' = "raised"
               /\ UNCHANGED <<clip_index, results, selfVars, files, assignLog, compareLog>>
          ELSE IF utterances = <<>> \/ longest_monologues = <<>>
          THEN \* continue
               /\ progress' = noted
               /\ clip_index' = k + 1
               /\ clip_utterances' =
                      IF utterances = <<>> THEN clip_utterances
                      ELSE DictSet(clip_utterances, k, utterances)
               /\ UNCHANGED <<pc, results, raised, speaker_identity_map,
                              previous_speaker_clips, files, assignLog, compareLog>>
          ELSE IF sampled.raised
          THEN \* clip_and_store_utterances raises ProcessingError
               /\ progress' = Append(noted, Note("error", 0))
               /\ raised' = "ProcessingError"
               /\ pc' = "raised"
               /\ clip_utterances' = DictSet(clip_utterances, k, utterances)
               /\ files' = sampled.files
               /\ UNCHANGED <<clip_index, results, speaker_identity_map,
                              previous_speaker_clips, assignLog, compareLog>>
          ELSE /\ progress' = noted
               /\ clip_index' = k + 1
               /\ files' = sampled.files
               /\ speaker_identity_map' = resolved.identity_map
               /\ previous_speaker_clips' =
                      IF k = 0 THEN current_speaker_clips
                      ELSE DictUpdate(previous_speaker_clips, current_speaker_clips, 1)
               /\ clip_utterances' =
                      DictSet(clip_utterances, k,
                              _update_utterance_speakers(utterances, resolved.identity_map))
               /\ assignLog' = assignLog \o resolved.assigned
               /\ compareLog' = compareLog \o resolved.compared
               /\ UNCHANGED <<pc, results, raised>>
    /\ UNCHANGED <<monoVars, sampleVars, webVars, inputVars, run, firstOutcome>>

\* After the loop: clean up, build the results, return
Finalize ==
    /\ pc = "loop"
    /\ clip_index = total_clips
    /\ files' = _cleanup_temp_files(files)
    /\ results' =
          [success |-> TRUE,
           total_clips_processed |-> total_clips,
           clip_utterances |-> clip_utterances,
           speaker_identity_map |-> speaker_identity_map,
           unique_speakers |-> Range(speaker_identity_map),
           speaker_statistics |->
               _generate_speaker_statistics(
                   [i \in DOMAIN clip_utterances |-> clip_utterances[i].val],
                   speaker_identity_map),
           processing_metadata |->
               [nemo_available |-> is_nemo_available, total_clips |-> total_clips]]
    /\ progress' = progress \o <<Note("finalizing", 95), Note("completed", 100)>>
    /\ pc' = "done"
    /\ UNCHANGED <<monoVars, sampleVars, webVars, inputVars, selfVars, clip_index, raised, histVars>>

\* The same service instance is called again with the same arguments
CallAgain ==
    /\ pc \in {"done", "raised"}
    /\ run < MaxRuns
    /\ firstOutcome' = [pc |-> pc, results |-> results, raised |-> raised,
                        progress |-> progress]
    /\ run' = run + 1
    /\ pc' = "ready"
    /\ clip_index' = 0
    /\ progress' = <<>>
    /\ results' = NoResults
    /\ raised' = ""
    /\ UNCHANGED <<monoVars, sampleVars, webVars, inputVars, selfVars, files, assignLog, compareLog>>

Next == Start \/ ProcessClip \/ Finalize
Spec == Init /\ [][Next]_vars

\* Calls repeated on one instance
NextTwice == Next \/ CallAgain
SpecTwice == Init /\ [][NextTwice]_vars


\* ================================================== the routes of the web API
\* The variables of the service calls above, which no route of this part reads
coreVars == <<monoVars, sampleVars, inputVars, selfVars, callVars, histVars, files>>

Users == 1..MaxUsers
Seconds == 0..MaxSeconds

\* f"diarization_{user_id}_{int(datetime.now().timestamp())}"
SessionId(user_id, second) == [user_id |-> user_id, second |-> second]
SessionIds == {SessionId(u, s) : u \in Users, s \in Seconds}
\* os.path.join(UPLOAD_FOLDER, f'diarization_{user_id}_{int(timestamp)}')
UploadDir(user_id, second) == <<"uploads", SessionId(user_id, second)>>

\* The dict a successful upload stores; 'results' and 'error' are keys it does
\* not have yet
NewSession(user_id, n, upload_dir) ==
    [user_id |-> user_id, files |-> n, upload_dir |-> upload_dir,
     status |-> "uploaded", progress |-> 0,
     has_results |-> FALSE, has_error |-> FALSE]

RegistrySet(registry, session_id, o) ==
    [k \in DOMAIN registry \cup {session_id} |->
        IF k = session_id THEN o ELSE registry[k]]
RegistryDel(registry, session_id) ==
    [k \in DOMAIN registry \ {session_id} |-> registry[k]]

Response(route, session_id, code) ==
    [route |-> route, session_id |-> session_id, code |-> code]
Spend == budget' = budget - 1

\* POST /upload-chunks with n named files, of which one fails validation or
\* none.  The clock is read once for the directory and once more, after the
\* files are saved, for the session id.
upload_audio_chunks ==
    /\ budget > 0
    /\ \E user_id \in Users, n \in 1..MaxFiles, valid \in BOOLEAN, later \in {0, 1} :
          LET upload_dir == UploadDir(user_id, clock)
              second == clock + later
              session_id == SessionId(user_id, second)
          IN /\ second <= MaxSeconds
             /\ clock' = second
             /\ IF valid
                THEN /\ upload_dirs' = upload_dirs \cup {upload_dir}
                     /\ heap' = Append(heap, NewSession(user_id, n, upload_dir))
                     /\ active_diarization_sessions' =
                           RegistrySet(active_diarization_sessions, session_id,
                                       Len(heap) + 1)
                     /\ last_response' = Response("upload", session_id, 200)
                ELSE /\ upload_dirs' = upload_dirs \ {upload_dir}
                     /\ last_response' = Response("upload", session_id, 400)
                     /\ UNCHANGED <<heap, active_diarization_sessions>>
    /\ Spend
    /\ UNCHANGED <<handlers, threads, coreVars>>

\* POST /process/<session_id>, up to the test of the status: the request is
\* answered 404, 403 or 400, or goes on holding the session_data it looked up
ProcessCheck ==
    /\ budget > 0
    /\ \E user_id \in Users, session_id \in SessionIds :
          IF session_id \notin DOMAIN active_diarization_sessions
          THEN /\ last_response' = Response("process", session_id, 404)
               /\ UNCHANGED handlers
          ELSE LET o == active_diarization_sessions[session_id]
               IN IF heap[o].user_id # user_id
                  THEN /\ last_response' = Response("process", session_id, 403)
                       /\ UNCHANGED handlers
                  ELSE IF heap[o].status # "uploaded"
                  THEN /\ last_response' = Response("process", session_id, 400)
                       /\ UNCHANGED handlers
                  ELSE /\ handlers' = Append(handlers, [obj |-> o, session_id |-> session_id])
                       /\ UNCHANGED last_response
    /\ Spend
    /\ UNCHANGED <<clock, heap, active_diarization_sessions, upload_dirs, threads, coreVars>>

Without(seq, i) == [j \in 1..(Len(seq) - 1) |-> IF j < i THEN seq[j] ELSE seq[j + 1]]

\* The thread a request starts: background_processing about to call
\* process_file_chunks with the session's file paths
NewThread(o) == [obj |-> o, pc |-> "uploading", i |-> 0, jobs |-> <<>>, log |-> <<>>]

\* POST /process/<session_id>, from the test of the status on: the status
\* becomes 'processing', the thread is started and the request is answered 200
ProcessStart ==
    \E h \in DOMAIN handlers :
        /\ heap' = [heap EXCEPT ![handlers[h].obj].status = "processing"]
        /\ threads' = Append(threads, NewThread(handlers[h].obj))
        /\ handlers' = Without(handlers, h)
        /\ last_response' = Response("process", handlers[h].session_id, 200)
        /\ UNCHANGED <<clock, active_diarization_sessions, upload_dirs, budget, coreVars>>

\* progress_callback: what the session keeps of a notification
Notify(session, notes) ==
    IF notes = <<>> THEN session
    ELSE [session EXCEPT !.progress = notes[Len(notes)].progress]

\* A step of thread t that sends the notes and leaves the thread as next
ThreadStep(t, notes, next) ==
    /\ threads' = [threads EXCEPT ![t] = [next EXCEPT !.log = threads[t].log \o notes]]
    /\ heap' = [heap EXCEPT ![threads[t].obj] = Notify(@, notes)]
    /\ UNCHANGED <<clock, active_diarization_sessions, upload_dirs, handlers,
                   last_response, budget, coreVars>>

\* The except clause of process_file_chunks: the 'error' note, then the raise
Raise(t, notes) ==
    ThreadStep(t, notes \o <<Note("error", 0)>>, [threads[t] EXCEPT !.pc = "raised"])

\* process_file_chunks, one turn of the first loop: the file is uploaded and
\* its transcription is started, or one of the two requests returns a failure
\* (as the upload does when the file is gone)
BgUpload(t) ==
    LET th == threads[t]
        n == heap[th.obj].files
        notes == (IF th.i = 0 THEN <<Note("uploading", 0)>> ELSE <<>>)
                    \o <<Note("uploading", (th.i * 30) \div n)>>
    IN /\ th.pc = "uploading"
       /\ \E success \in BOOLEAN :
             /\ success => heap[th.obj].upload_dir \in upload_dirs
             /\ IF success
                THEN ThreadStep(t, notes,
                        [th EXCEPT !.jobs = Append(@, "processing"),
                                   !.i = IF th.i + 1 = n THEN 0 ELSE th.i + 1,
                                   !.pc = IF th.i + 1 = n THEN "transcribing"
                                                          ELSE "uploading"])
                ELSE Raise(t, notes)

\* The transcription service finishes job j of thread t, one way or the other
JobReports(t) ==
    /\ t \in DOMAIN threads
    /\ \E j \in DOMAIN threads[t].jobs, status \in {"completed", "error"} :
        /\ threads[t].jobs[j] = "processing"
        /\ threads' = [threads EXCEPT ![t].jobs[j] = status]
        /\ UNCHANGED <<clock, heap, active_diarization_sessions, upload_dirs,
                       handlers, last_response, budget, coreVars>>

\* process_file_chunks, one turn of the second loop up to get_transcript
BgWait(t) ==
    LET th == threads[t]
        n == heap[th.obj].files
        notes == (IF th.i = 0 THEN <<Note("transcribing", 35)>> ELSE <<>>)
                    \o <<Note("transcribing", 35 + ((th.i * 35) \div n))>>
    IN /\ th.pc = "transcribing"
       /\ ThreadStep(t, notes, [th EXCEPT !.pc = "polling"])

\* get_transcript, what one turn of its loop does with the status it is given
PollUntilCompleted(status) ==
    IF status = "completed" THEN "return" ELSE "sleep"
PollOutcome(status) ==
    IF status = "completed" THEN "return"
    ELSE IF status = "error" THEN "raise"
    ELSE "sleep"

\* get_transcript, one turn of its loop with an answer: the job is 'completed'
\* (return), is 'error' (raise), or is neither (sleep and ask again)
BgPoll(t) ==
    LET th == threads[t]
        n == heap[th.obj].files
        outcome == PollOutcome(th.jobs[th.i + 1])
    IN /\ th.pc = "polling"
       /\ IF outcome = "raise"
          THEN Raise(t, <<>>)
          ELSE IF outcome = "return"
          THEN ThreadStep(t, <<>>,
                  [th EXCEPT !.i = th.i + 1,
                             !.pc = IF th.i + 1 = n THEN "diarizing"
                                                    ELSE "transcribing"])
          ELSE UNCHANGED vars

\* get_transcript, one turn of its loop without one: requests.RequestException
BgPollFails(t) ==
    /\ threads[t].pc = "polling"
    /\ Raise(t, <<>>)

\* The notes of a call of process_clips_async on n clips that returns
AsyncNotes(n) ==
    <<Note("initialization", 0)>>
       \o [k \in 1..n |-> Note("processing_clip", ClipProgress(k - 1, n))]
       \o <<Note("finalizing", 95), Note("completed", 100)>>

\* process_file_chunks, its third step: process_clips_async returns the
\* results, or raises and both except clauses send their 'error' note
BgDiarize(t) ==
    LET th == threads[t]
        n == heap[th.obj].files
    IN /\ th.pc = "diarizing"
       /\ \E returns \in BOOLEAN :
             IF returns
             THEN ThreadStep(t, <<Note("speaker_diarization", 70)>> \o AsyncNotes(n),
                             [th EXCEPT !.pc = "returned"])
             ELSE Raise(t, <<Note("speaker_diarization", 70), Note("initialization", 0),
                             Note("error", 0)>>)

\* background_processing after the call: session_data['status'] = ...
StatusAfter(at) == IF at = "returned" THEN "completed" ELSE "error"
BgSetStatus(t) ==
    LET th == threads[t]
    IN /\ th.pc \in {"returned", "raised"}
       /\ heap' = [heap EXCEPT ![th.obj].status = StatusAfter(th.pc),
                               ![th.obj].has_error = @ \/ th.pc = "raised"]
       /\ threads' = [threads EXCEPT ![t].pc = IF th.pc = "returned" THEN "status_set"
                                                                    ELSE "finished"]
       /\ UNCHANGED <<clock, active_diarization_sessions, upload_dirs, handlers,
                      last_response, budget, coreVars>>

\* background_processing: session_data['results'] = results
BgSetResults(t) ==
    /\ threads[t].pc = "status_set"
    /\ heap' = [heap EXCEPT ![threads[t].obj].has_results = TRUE]
    /\ threads' = [threads EXCEPT ![t].pc = "finished"]
    /\ UNCHANGED <<clock, active_diarization_sessions, upload_dirs, handlers,
                   last_response, budget, coreVars>>

\* The steps thread t takes when it is given the processor and its requests
\* are answered
Scheduled(t) ==
    /\ t \in DOMAIN threads
    /\ \/ BgUpload(t)
       \/ BgWait(t)
       \/ BgPoll(t)
       \/ BgDiarize(t)
       \/ BgSetStatus(t)
       \/ BgSetResults(t)
Background(t) == Scheduled(t) \/ BgPollFails(t)

\* The first lines of the routes that take a session id: the status code of
\* the refusal, or 200 when the session is there and belongs to the user
Lookup(user_id, session_id) ==
    IF session_id \notin DOMAIN active_diarization_sessions THEN 404
    ELSE IF heap[active_diarization_sessions[session_id]].user_id # user_id THEN 403
    ELSE 200

\* GET /results/<session_id>
ResultsAnswer(session) ==
    IF session.status # "completed" THEN 400
    ELSE IF ~session.has_results THEN 500
    ELSE 200
get_diarization_results ==
    /\ budget > 0
    /\ \E user_id \in Users, session_id \in SessionIds :
          LET code == Lookup(user_id, session_id)
          IN last_response' =
                IF code # 200 THEN Response("results", session_id, code)
                ELSE Response("results", session_id,
                        ResultsAnswer(heap[active_diarization_sessions[session_id]]))
    /\ Spend
    /\ UNCHANGED <<clock, heap, active_diarization_sessions, upload_dirs, handlers,
                   threads, coreVars>>

\* GET /status/<session_id>: the status, and whether 'results' is in the answer
get_diarization_status ==
    /\ budget > 0
    /\ \E user_id \in Users, session_id \in SessionIds :
          LET code == Lookup(user_id, session_id)
              session == heap[active_diarization_sessions[session_id]]
          IN last_response' =
                IF code # 200 THEN Response("status", session_id, code)
                ELSE [route |-> "status", session_id |-> session_id, code |-> 200,
                      status |-> session.status,
                      results |-> session.status = "completed" /\ session.has_results]
    /\ Spend
    /\ UNCHANGED <<clock, heap, active_diarization_sessions, upload_dirs, handlers,
                   threads, coreVars>>

\* DELETE /cleanup/<session_id>
cleanup_diarization_session ==
    /\ budget > 0
    /\ \E user_id \in Users, session_id \in SessionIds :
          LET code == Lookup(user_id, session_id)
          IN /\ last_response' = Response("cleanup", session_id, code)
             /\ IF code = 200
                THEN /\ upload_dirs' = upload_dirs \
                          {heap[active_diarization_sessions[session_id]].upload_dir}
                     /\ active_diarization_sessions' =
                           RegistryDel(active_diarization_sessions, session_id)
                ELSE UNCHANGED <<upload_dirs, active_diarization_sessions>>
    /\ Spend
    /\ UNCHANGED <<clock, heap, handlers, threads, coreVars>>

\* A second passes
Tick ==
    /\ clock < MaxSeconds
    /\ clock' = clock + 1
    /\ UNCHANGED <<heap, active_diarization_sessions, upload_dirs, handlers, threads,
                   last_response, budget, coreVars>>

\* The server after start-up: no session, and the requests still to come
WebInit ==
    /\ monoInput = <<>>
    /\ monoResult = NotCalled
    /\ SampleIdle
    /\ clock = 0
    /\ heap = <<>>
    /\ active_diarization_sessions = <<>>
    /\ upload_dirs = {}
    /\ handlers = <<>>
    /\ threads = <<>>
    /\ last_response = NoResponse
    /\ budget = MaxRequests
    /\ oracleMode = "exact"
    /\ is_nemo_available = FALSE
    /\ verify_fails = {}
    /\ env = GoodEnv
    /\ transcripts = <<>>
    /\ audio = <<>>
    /\ files = [q \in {} |-> 0]
    /\ clip_utterances = <<>>
    /\ speaker_identity_map = EmptyMap
    /\ previous_speaker_clips = <<>>
    /\ pc = "web"
    /\ clip_index = 0
    /\ progress = <<>>
    /\ results = NoResults
    /\ raised = ""
    /\ run = 1
    /\ firstOutcome = [pc |-> "none"]
    /\ assignLog = <<>>
    /\ compareLog = <<>>

ThreadSteps == \E t \in DOMAIN threads : Background(t)
JobsReport == \E t \in DOMAIN threads : JobReports(t)

WebNext ==
    \/ upload_audio_chunks
    \/ ProcessCheck
    \/ ProcessStart
    \/ ThreadSteps
    \/ JobsReport
    \/ get_diarization_results
    \/ get_diarization_status
    \/ cleanup_diarization_session
    \/ Tick
SpecWeb == WebInit /\ [][WebNext]_vars

\* The same server when the scheduler gives every thread its turn again and
\* again and the transcription service finishes every job it was given
SpecWebLive ==
    /\ WebInit
    /\ [][WebNext]_vars
    /\ \A t \in 1..MaxRequests : WF_vars(Scheduled(t)) /\ WF_vars(JobReports(t))

\* ==================================================================== claims
\* Maximal runs of list-consecutive, time-adjacent utterances of one speaker,
\* as pairs of positions, read off the utterance list itself
RunsOf(utts, spk) ==
    {r \in (DOMAIN utts) \X (DOMAIN utts) :
        /\ r[1] <= r[2]
        /\ \A t \in r[1]..r[2] : utts[t].speaker = spk
        /\ \A t \in r[1]..(r[2] - 1) : utts[t].end = utts[t + 1].start
        /\ \/ r[1] = 1
           \/ utts[r[1] - 1].speaker # spk
           \/ utts[r[1] - 1].end # utts[r[1]].start
        /\ \/ r[2] = Len(utts)
           \/ utts[r[2] + 1].speaker # spk
           \/ utts[r[2]].end # utts[r[2] + 1].start}
RunDuration(utts, r) == utts[r[2]].end - utts[r[1]].start
SpeakersOf(utts) == {utts[i].speaker : i \in DOMAIN utts}

\* The clips the service holds utterances of, and what they carry
ClipsHeld(utts) == DictKeys(utts)
Annotated(utts, c) ==
    LET l == DictGet(utts, c) IN {l[i] : i \in {j \in DOMAIN l : l[j].original_speaker # NoLabel}}
\* the GlobalSpeakerIds carried by the utterances of local speaker s of clip c
AnnotationOf(utts, c, s) == {u.speaker : u \in {x \in Annotated(utts, c) : x.original_speaker = s}}
IdsOfClip(utts, c) == {u.speaker : u \in Annotated(utts, c)}
IdsBefore(utts, c) == UNION {IdsOfClip(utts, j) : j \in {x \in ClipsHeld(utts) : x < c}}
LogOf(k) == {assignLog[i] : i \in {j \in DOMAIN assignLog : assignLog[j].clip = k}}

\* Every comparison of the run answered "match" exactly for two segments of one voice
OracleExactInRun ==
    \A i \in DOMAIN compareLog :
        compareLog[i].verdict
            <=> (compareLog[i].new_content.person = compareLog[i].base_content.person)

\* C1: with an oracle that says "match" exactly for segments of the same person,
\* no two utterances of the final result that carry the same GlobalSpeakerId are
\* spoken by different persons.
C1_NoFalseMerge ==
    (pc = "done" /\ OracleExactInRun) =>
        \A c1, c2 \in ClipsHeld(results.clip_utterances) :
            \A u1 \in Annotated(results.clip_utterances, c1) :
                \A u2 \in Annotated(results.clip_utterances, c2) :
                    u1.speaker = u2.speaker => u1.person = u2.person

\* The resolution of local speaker b that was the latest before clip k
LatestBefore(b, k) ==
    LET idx == {i \in DOMAIN assignLog : assignLog[i].speaker = b /\ assignLog[i].clip < k}
    IN assignLog[CHOOSE i \in idx : \A j \in idx : j <= i]

\* C2: a speaker of a clip k > 0 whose segment matched (first match) the stored
\* segment of a speaker of an earlier clip carries, on its utterances, the
\* GlobalSpeakerId that the utterances of that earlier speaker carry.
C2_MatchTakesEarlierId ==
    \A i \in DOMAIN assignLog :
        assignLog[i].how = "matched" =>
            LET e == assignLog[i]
                earlier == LatestBefore(e.base, e.clip)
            IN AnnotationOf(clip_utterances, e.clip, e.speaker)
                   = AnnotationOf(clip_utterances, earlier.clip, earlier.speaker)

\* C3: a GlobalSpeakerId minted for an unmatched speaker is carried by no
\* utterance of an earlier clip of the run.
C3_MintedIdIsFresh ==
    \A i \in DOMAIN assignLog :
        assignLog[i].how = "new" =>
            AnnotationOf(clip_utterances, assignLog[i].clip, assignLog[i].speaker)
                \cap IdsBefore(clip_utterances, assignLog[i].clip) = {}

\* C4: every GlobalSpeakerId assigned during the run is a member of
\* unique_speakers in the final result.
C4_IdsOnlyGrow ==
    pc = "done" =>
        \A i \in DOMAIN assignLog : assignLog[i].label \in results.unique_speakers

\* C5: every GlobalSpeakerId of unique_speakers is the speaker label of at least
\* one utterance of the returned clip_utterances.
C5_UniqueSpeakersReferenced ==
    pc = "done" =>
        \A g \in results.unique_speakers :
            \E c \in ClipsHeld(results.clip_utterances) :
                \E i \in DOMAIN DictGet(results.clip_utterances, c) :
                    DictGet(results.clip_utterances, c)[i].speaker = g

C5_Witness ==
    /\ pc = "done"
    /\ Cardinality(results.unique_speakers) >= 2
    /\ \E i, j \in DOMAIN assignLog :
          assignLog[i].how = "matched" /\ assignLog[j].how = "new"

\* C6: a second call on the same instance with the same arguments ends as the
\* first did: the same annotated utterances, unique_speakers, statistics and
\* identity map, or the same exception, and the same notifications.
C6_SecondRunSame ==
    (run = 2 /\ pc \in {"done", "raised"}) =>
        /\ firstOutcome.pc = pc
        /\ firstOutcome.results = results
        /\ firstOutcome.raised = raised
        /\ firstOutcome.progress = progress

C6_Witness ==
    /\ run = 2
    /\ pc = "done"
    /\ total_clips = 2
    /\ Cardinality(results.unique_speakers) >= 2
    /\ \E i \in DOMAIN assignLog : assignLog[i].how = "matched"
    /\ results.speaker_statistics = firstOutcome.results.speaker_statistics

\* C7: in a run in which no comparison answered "match", the speakers of a clip
\* k > 0 that have a sampled segment carry pairwise different GlobalSpeakerIds,
\* none of which an utterance of an earlier clip carries: the clip introduces
\* as many new ids as it has sampled speakers.
C7_NoMatchAllNew ==
    (\A i \in DOMAIN compareLog : ~compareLog[i].verdict) =>
        \A k \in ClipsHeld(clip_utterances) \ {0} :
            /\ \A e \in LogOf(k) :
                  /\ Cardinality(AnnotationOf(clip_utterances, k, e.speaker)) = 1
                  /\ AnnotationOf(clip_utterances, k, e.speaker)
                         \cap IdsBefore(clip_utterances, k) = {}
            /\ \A e1, e2 \in LogOf(k) :
                  e1.speaker # e2.speaker =>
                      AnnotationOf(clip_utterances, k, e1.speaker)
                          # AnnotationOf(clip_utterances, k, e2.speaker)
            /\ Cardinality(IdsOfClip(clip_utterances, k) \ IdsBefore(clip_utterances, k))
                   = Cardinality(LogOf(k))

C7_Witness ==
    /\ pc = "done"
    /\ compareLog # <<>>
    /\ \A i \in DOMAIN compareLog : ~compareLog[i].verdict
    /\ Cardinality(LogOf(1)) = 2
    /\ Cardinality(IdsOfClip(clip_utterances, 0)) = 2

\* C8: once clip 0 is processed, the registry holds as many GlobalSpeakerIds as
\* clip 0 has local speakers with at least one monologue, and different local
\* speakers of clip 0 have different GlobalSpeakerIds.
C8_BaselineCount ==
    (pc = "loop" /\ clip_index = 1) =>
        LET utts == transcripts[0].utterances
            withMonologue == {s \in SpeakersOf(utts) : RunsOf(utts, s) # {}}
        IN /\ Cardinality(Range(speaker_identity_map)) = Cardinality(withMonologue)
           /\ DOMAIN speaker_identity_map = withMonologue
           /\ \A s1, s2 \in withMonologue :
                  s1 # s2 => speaker_identity_map[s1] # speaker_identity_map[s2]

C8_Witness ==
    /\ pc = "loop"
    /\ clip_index = 1
    /\ Cardinality(SpeakersOf(transcripts[0].utterances)) = 2
    /\ Cardinality(Range(speaker_identity_map)) = 2

\* C9: the monologue find_longest_monologues retains for a speaker is at least
\* as long as every candidate run of that speaker, the last one included.
C9_RetainedIsLongest ==
    monoResult # NotCalled =>
        \A s \in SpeakersOf(monoInput) :
            /\ DictHas(monoResult, s)
            /\ Len(DictGet(monoResult, s)) = 1
            /\ \A r \in RunsOf(monoInput, s) :
                  DictGet(monoResult, s)[1].length >= RunDuration(monoInput, r)

C9_Witness ==
    /\ monoResult # NotCalled
    /\ \E s \in SpeakersOf(monoInput) :
          /\ Cardinality(RunsOf(monoInput, s)) >= 3
          /\ \E r \in RunsOf(monoInput, s) :
                /\ r[2] = Len(monoInput)
                /\ \A q \in RunsOf(monoInput, s) \ {r} :
                      RunDuration(monoInput, q) < RunDuration(monoInput, r)
                /\ DictGet(monoResult, s)[1].length = RunDuration(monoInput, r)

\* C10: a call with a non-empty clip list and as many audio files as transcripts
\* never raises.
C10_ValidInputNeverRaises ==
    (total_clips > 0 /\ Cardinality(DOMAIN audio) = total_clips) => raised = ""

\* The clips a result records as skipped, none if it has no such entry
SkippedClips(res) == IF "skipped_clips" \in DOMAIN res THEN res.skipped_clips ELSE {}

\* The clips whose audio file exists and no loader decodes, with utterances to sample
DecodeFails(k) ==
    /\ k \in DOMAIN transcripts /\ k \in DOMAIN audio
    /\ audio[k].kind = "corrupt"
    /\ env.pydub /\ env.ffmpeg
    /\ transcripts[k].status = "completed"
    /\ transcripts[k].utterances # <<>>

\* C11: a run with a clip whose audio fails to decode returns a result without
\* raising; the result records that clip as skipped, the clip contributes no
\* entry to the registry, and every other clip is processed.
C11_DecodeFailureSkipped ==
    \A k \in DOMAIN audio :
        (DecodeFails(k) /\ DOMAIN audio = DOMAIN transcripts /\ pc \in {"done", "raised"}) =>
            /\ pc = "done"
            /\ k \in SkippedClips(results)
            /\ LogOf(k) = {}
            /\ \A j \in DOMAIN transcripts \ {k} : j \in ClipsHeld(results.clip_utterances)

\* C12: a call with an empty clip list, or with a clip list and an audio-file
\* list of different lengths, ends by raising ValidationError to its caller,
\* with no clip processed and no result.
C12_BadListsRaiseValidationError ==
    ((total_clips = 0 \/ Cardinality(DOMAIN audio) # total_clips)
        /\ pc \in {"done", "raised"}) =>
        /\ pc = "raised"
        /\ raised = "ValidationError"
        /\ results = NoResults
        /\ clip_utterances = <<>>

\* C15: when the call has ended, by returning or by raising, no segment file
\* that clip_and_store_utterances wrote during the call exists.
C15_NoSegmentFileLeft ==
    pc \in {"done", "raised"} => DOMAIN files = {}

\* The comparisons made for local speaker s while clip k was resolved, in order
ComparisonsOf(k, s) ==
    SelectSeq(compareLog, LAMBDA c : c.clip = k /\ c.new_speaker = s)

\* The GlobalSpeakerId that the segment stored under local label b stands for
\* while clip k is resolved: the one b was resolved to when it was stored
StoredGlobal(b, k) == LatestBefore(b, k).label

\* The position in the history at which GlobalSpeakerId g was created
Created(g) ==
    CHOOSE i \in DOMAIN assignLog :
        /\ assignLog[i].label = g
        /\ \A j \in 1..(i - 1) : assignLog[j].label # g

\* C18: while clip k > 0 is resolved, the stored segments a local speaker is
\* compared with stand for pairwise different GlobalSpeakerIds, and each was
\* stored in the most recent clip before k in which its GlobalSpeakerId was
\* assigned.
C18_OneLatestSegmentPerGlobal ==
    \A n \in DOMAIN compareLog :
        LET c == compareLog[n]
            g == StoredGlobal(c.base_speaker, c.clip)
        IN /\ \A m \in DOMAIN compareLog :
                 (compareLog[m].clip = c.clip /\ compareLog[m].new_speaker = c.new_speaker
                     /\ compareLog[m].base_speaker # c.base_speaker)
                 => StoredGlobal(compareLog[m].base_speaker, c.clip) # g
           /\ \A i \in DOMAIN assignLog :
                 (assignLog[i].label = g /\ assignLog[i].clip < c.clip)
                 => assignLog[i].clip <= LatestBefore(c.base_speaker, c.clip).clip

\* C19: every comparison made while clip k is resolved has, as its stored side,
\* audio of a clip before k.
C19_StoredSideIsEarlierClip ==
    \A n \in DOMAIN compareLog :
        /\ compareLog[n].base_content.clip >= 0
        /\ compareLog[n].base_content.clip < compareLog[n].clip

\* C20: for each local speaker of a clip k > 0 the stored segments are compared
\* in the order in which their GlobalSpeakerIds were created, the speaker is
\* given the GlobalSpeakerId of the first stored segment the oracle matched, and
\* no stored segment is compared after a match.
C20_FirstMatchInCreationOrder ==
    /\ \A k \in 1..(clip_index - 1) : \A s \in LocalLabels :
          LET cs == ComparisonsOf(k, s)
          IN /\ \A i, j \in DOMAIN cs :
                   i < j => Created(StoredGlobal(cs[i].base_speaker, k))
                               <= Created(StoredGlobal(cs[j].base_speaker, k))
             /\ \A i \in DOMAIN cs : cs[i].verdict => i = Len(cs)
    /\ \A n \in DOMAIN assignLog :
          assignLog[n].how = "matched" =>
              assignLog[n].label = StoredGlobal(assignLog[n].base, assignLog[n].clip)

\* C13: whenever the similarity computation of the oracle the service is
\* configured with raised during a comparison, compare_embeddings answered
\* false (no match).
C13_OracleFailureIsNoMatch ==
    \A i \in DOMAIN compareLog : compareLog[i].threw => ~compareLog[i].verdict

\* The implementation that the result reports in its processing_metadata
ReportedOracle(res) ==
    IF res.processing_metadata.nemo_available THEN "embedding" ELSE "fallback"

\* C14: every comparison of a run is decided by one implementation (the embedding
\* verifier or the acoustic fallback), and it is the one that the result reports
\* in processing_metadata; with the embedding model unavailable it is the
\* acoustic fallback.
C14_OneOracleAsReported ==
    pc = "done" =>
        /\ \A i, j \in DOMAIN compareLog : compareLog[i].by = compareLog[j].by
        /\ \A i \in DOMAIN compareLog : compareLog[i].by = ReportedOracle(results)
        /\ ~is_nemo_available => ReportedOracle(results) = "fallback"

\* The running monologues after the first i utterances of a list
RunningAfter(utts, i) ==
    ScanUtterances(SubSeq(utts, 1, i), 1,
        [current_monologue |-> <<>>, longest_monologues |-> <<>>,
         last_speaker |-> NoLabel]).current_monologue

\* The run of the first i utterances that ends with utterance i
RunEndingAt(utts, i) ==
    CHOOSE r \in RunsOf(SubSeq(utts, 1, i), utts[i].speaker) : r[2] = i

\* The positions (clip, index) of the utterances of a result's clip_utterances
Positions(utts) ==
    UNION {{<<c, i>> : i \in DOMAIN DictGet(utts, c)} : c \in DictKeys(utts)}
UttAt(utts, pos) == DictGet(utts, pos[1])[pos[2]]
Carrying(utts, g) == {pos \in Positions(utts) : UttAt(utts, pos).speaker = g}

\* Milliseconds spoken under label g: for each length, the length times the
\* number of utterances of that length
RECURSIVE TalkMs(_, _, _)
TalkMs(utts, g, lengths) ==
    IF lengths = {} THEN 0
    ELSE LET d == CHOOSE x \in lengths : TRUE
         IN d * Cardinality({pos \in Carrying(utts, g) :
                               UttAt(utts, pos).end - UttAt(utts, pos).start = d})
            + TalkMs(utts, g, lengths \ {d})
LengthsIn(utts) ==
    {UttAt(utts, pos).end - UttAt(utts, pos).start : pos \in Positions(utts)}

\* C16: for every speaker label carried by an utterance of the returned
\* clip_utterances, the statistics give the number of utterances that carry it
\* and, as talk time, the sum of (end - start) over them in minutes rounded to
\* two decimals (within half a hundredth of a minute; 5000 ms gives 0.08); the
\* statistics have entries for these labels only.
C16_StatisticsMatchUtterances ==
    pc = "done" =>
        LET utts == results.clip_utterances
            stats == results.speaker_statistics
            labels == {UttAt(utts, pos).speaker : pos \in Positions(utts)}
        IN /\ DOMAIN stats.speaker_utterance_count = labels
           /\ DOMAIN stats.speaker_talk_time = labels
           /\ \A g \in labels :
                 LET ms == TalkMs(utts, g, LengthsIn(utts))
                     diff == ms - 600 * stats.speaker_talk_time[g]
                 IN /\ stats.speaker_utterance_count[g] = Cardinality(Carrying(utts, g))
                    /\ diff <= 300 /\ -diff <= 300
                    /\ ms = 5000 => stats.speaker_talk_time[g] = 8

C16_Witness ==
    /\ pc = "done"
    /\ \E g, h \in DOMAIN results.speaker_statistics.speaker_talk_time :
          /\ results.speaker_statistics.speaker_utterance_count[g] = 1
          /\ results.speaker_statistics.speaker_talk_time[g] = 8
          /\ results.speaker_statistics.speaker_utterance_count[h] = 2
          /\ results.speaker_statistics.speaker_talk_time[h] = 17
          /\ \E p1, p2 \in Carrying(results.clip_utterances, h) : p1[1] # p2[1]

\* C17: find_longest_monologues extends the running monologue of a speaker with
\* an utterance exactly when the utterance starts at the running monologue's end
\* and the utterance before it in the list is by the same speaker, and starts a
\* new running monologue at the utterance otherwise; the result holds exactly
\* one monologue per speaker, and it spans a maximal run of list-consecutive,
\* time-adjacent utterances of that speaker.
C17_MonologueIsMaximalRun ==
    monoResult # NotCalled =>
        /\ \A i \in DOMAIN monoInput :
              LET u == monoInput[i]
                  now == DictGet(RunningAfter(monoInput, i), u.speaker)
                  extends == /\ i > 1
                             /\ monoInput[i - 1].speaker = u.speaker
                             /\ DictHas(RunningAfter(monoInput, i - 1), u.speaker)
                             /\ DictGet(RunningAfter(monoInput, i - 1), u.speaker).end = u.start
              IN /\ now.end = u.end
                 /\ now.start = IF extends
                                THEN DictGet(RunningAfter(monoInput, i - 1), u.speaker).start
                                ELSE u.start
                 /\ now.start = monoInput[RunEndingAt(monoInput, i)[1]].start
        /\ DictKeys(monoResult) = SpeakersOf(monoInput)
        /\ \A s \in SpeakersOf(monoInput) :
              /\ Len(DictGet(monoResult, s)) <= 1
              /\ \A j \in DOMAIN DictGet(monoResult, s) :
                    \E r \in RunsOf(monoInput, s) :
                        /\ DictGet(monoResult, s)[j].start = monoInput[r[1]].start
                        /\ DictGet(monoResult, s)[j].end = monoInput[r[2]].end
                        /\ DictGet(monoResult, s)[j].length = RunDuration(monoInput, r)

C17_Witness ==
    /\ monoResult # NotCalled
    /\ \E i \in DOMAIN monoInput :
          /\ i >= 3
          /\ monoInput[i].speaker = monoInput[i - 2].speaker
          /\ monoInput[i].speaker # monoInput[i - 1].speaker
          /\ monoInput[i - 2].end = monoInput[i].start
    /\ \E j \in DOMAIN monoInput :
          /\ j > 1
          /\ monoInput[j].speaker = monoInput[j - 1].speaker
          /\ monoInput[j - 1].end = monoInput[j].start

\* C21: the utterances the service holds for a processed clip are as many as the
\* transcript has, in the same order and with the same times, and an utterance
\* whose local speaker was not resolved while that clip was processed carries no
\* GlobalSpeakerId (speaker labels are the naturals) but a marker.
C21_UnresolvedIsMarked ==
    \A k \in ClipsHeld(clip_utterances) :
        (k < clip_index) =>
            LET given == transcripts[k].utterances
                held == DictGet(clip_utterances, k)
            IN /\ Len(held) = Len(given)
               /\ \A i \in DOMAIN given :
                     /\ held[i].start = given[i].start /\ held[i].end = given[i].end
                     /\ (\A e \in LogOf(k) : e.speaker # given[i].speaker)
                            => held[i].speaker \notin Nat

\* C22: a clip whose transcript has no utterances leaves the identity map and
\* the stored segments as they were, the run goes on, and the result records
\* the clip as skipped.
C22_EmptyClipSkipped ==
    /\ [][(pc = "loop" /\ clip_index < total_clips
             /\ transcripts[clip_index].status = "completed"
             /\ transcripts[clip_index].utterances = <<>>)
          => /\ speaker_identity_map' = speaker_identity_map
             /\ previous_speaker_clips' = previous_speaker_clips
             /\ pc' = "loop" /\ clip_index' = clip_index + 1]_vars
    /\ [](pc = "done" =>
            \A k \in DOMAIN transcripts :
                transcripts[k].utterances = <<>> => k \in SkippedClips(results))

\* What the callback is told for clips 0 .. n-1 of N
ClipNotes(n, N) == [j \in 1..n |-> Note("processing_clip", (90 * (j - 1)) \div N)]

\* C24: the notifications of a call are one 'initialization', then one
\* 'processing_clip' per clip in index order with progress floor(90 * k / N),
\* then 'finalizing' (95) and 'completed' (100) when the call returns, or
\* 'error' when it raises, and nothing after the terminal notification.
C24_ProgressOrder ==
    /\ pc = "done" =>
          progress = <<Note("initialization", 0)>> \o ClipNotes(total_clips, total_clips)
                        \o <<Note("finalizing", 95), Note("completed", 100)>>
    /\ pc = "raised" =>
          \E n \in 0..total_clips :
              progress = <<Note("initialization", 0)>> \o ClipNotes(n, total_clips)
                            \o <<Note("error", 0)>>

\* The monologues handed to clip_and_store_utterances, in the order of the dict
GivenMonologues == Monologues(find_longest_monologues(monoInput), 1)

\* A segment was produced for the i-th monologue handed in
Produced(i) ==
    \E j \in DOMAIN sampleResult.utterance_clips :
        LET c == sampleResult.utterance_clips[j]
        IN /\ c.speaker = GivenMonologues[i].speaker
           /\ c.start = GivenMonologues[i].monologue.start
           /\ c.end = GivenMonologues[i].monologue.end
           /\ c.clip_filename \in DOMAIN files

ThreadsOf(o) == {t \in DOMAIN threads : threads[t].obj = o}
IsRunning(o) == \E t \in ThreadsOf(o) : threads[t].pc # "finished"

\* C25: for each session, background processing is started at most once: of
\* the POST /process requests handled for it, also concurrently, at most one
\* starts process_file_chunks (the others are answered 400).
C25_OneStartPerSession ==
    \A o \in DOMAIN heap : Cardinality(ThreadsOf(o)) <= 1

\* C26: a session whose status is 'completed' has 'results' stored, so that a
\* request to /results that sees status 'completed' finds the results (and is
\* not answered 500 'Results not available').
C26_CompletedHasResults ==
    /\ \A o \in DOMAIN heap : heap[o].status = "completed" => heap[o].has_results
    /\ last_response.route = "results" => last_response.code # 500

\* C27: a DELETE /cleanup request never removes the upload directory of a
\* session whose processing thread has started and has not finished.
C27_CleanupSparesRunning ==
    [][(budget' < budget /\ last_response'.route = "cleanup") =>
          \A o \in DOMAIN heap :
              (IsRunning(o) /\ heap[o].upload_dir \in upload_dirs)
                  => heap[o].upload_dir \in upload_dirs']_vars

\* C28: a successful POST /upload-chunks leaves every entry of
\* active_diarization_sessions as it was, and the directory of the session it
\* creates is the directory of no session that was there before.
C28_UploadIsFresh ==
    [][Len(heap') > Len(heap) =>
          /\ \A k \in DOMAIN active_diarization_sessions :
                /\ k \in DOMAIN active_diarization_sessions'
                /\ active_diarization_sessions'[k] = active_diarization_sessions[k]
          /\ \A k \in DOMAIN active_diarization_sessions :
                heap[active_diarization_sessions[k]].upload_dir
                    # heap'[Len(heap')].upload_dir]_vars

\* The call of process_file_chunks in thread th has returned its results
Returned(th) ==
    \/ th.pc \in {"returned", "status_set"}
    \/ th.pc = "finished" /\ th.log[Len(th.log)].stage = "completed"

\* C29: the progress values of a call of process_file_chunks that returns are
\* non-decreasing, lie within 0..100, and the last one is 100.
C29_ProgressNeverFalls ==
    \A t \in DOMAIN threads :
        Returned(threads[t]) =>
            LET log == threads[t].log
            IN /\ \A j \in 1..(Len(log) - 1) : log[j].progress <= log[j + 1].progress
               /\ \A j \in DOMAIN log : log[j].progress \in 0..100
               /\ log[Len(log)].progress = 100

\* C30: when every thread keeps being scheduled and every transcription job
\* eventually reports 'completed' or 'error', a session whose status is
\* 'processing' eventually has status 'completed' or 'error'.
C30_ProcessingEnds ==
    \A o \in 1..MaxRequests :
        (o \in DOMAIN heap /\ heap[o].status = "processing")
            ~> (o \in DOMAIN heap /\ heap[o].status \in {"completed", "error"})

\* A thread that waited for its jobs has ended and left its session 'completed'
C30_Witness ==
    \E t \in DOMAIN threads :
        /\ threads[t].pc = "finished"
        /\ \A j \in DOMAIN threads[t].jobs : threads[t].jobs[j] = "completed"
        /\ Len(threads[t].jobs) = heap[threads[t].obj].files
        /\ heap[threads[t].obj].status = "completed"

\* ------------------------------------------------------ long uniform runs
\* Runs of up to MaxLongClips clips, each with the same two speakers, whose
\* segments the oracle never takes for the same speaker
UniformTranscript ==
    [status |-> "completed",
     utterances |-> <<Utt(0, 0, 5000, 1), Utt(1, 5000, 5000, 2)>>]

LongInit ==
    /\ monoInput = <<>>
    /\ monoResult = NotCalled
    /\ SampleIdle
    /\ WebIdle
    /\ oracleMode = "never"
    /\ is_nemo_available = FALSE
    /\ verify_fails = {}
    /\ env = GoodEnv
    /\ \E n \in 1..MaxLongClips :
          /\ transcripts = [k \in 0..(n - 1) |-> UniformTranscript]
          /\ audio = [k \in 0..(n - 1) |-> GoodAudio]
    /\ files = [q \in {} |-> 0]
    /\ clip_utterances = <<>>
    /\ speaker_identity_map = EmptyMap
    /\ previous_speaker_clips = <<>>
    /\ pc = "ready"
    /\ clip_index = 0
    /\ progress = <<>>
    /\ results = NoResults
    /\ raised = ""
    /\ run = 1
    /\ firstOutcome = [pc |-> "none"]
    /\ assignLog = <<>>
    /\ compareLog = <<>>

SpecLong == LongInit /\ [][Next]_vars

\* ------------------------------------------------- runs of three clips
\* Completed transcripts whose utterances follow one another without a gap
ChainTranscripts ==
    {[status |-> "completed", utterances |-> l] :
        l \in {x \in ClipUtterances :
                  /\ x # <<>>
                  /\ \A i \in 2..Len(x) : x[i].start = x[i - 1].end}}

\* Runs of up to MaxChainClips clips with decodable audio, every dependency
\* installed, no embedding model, and an oracle that tells the voices apart
ChainInit ==
    /\ monoInput = <<>>
    /\ monoResult = NotCalled
    /\ SampleIdle
    /\ WebIdle
    /\ oracleMode = "exact"
    /\ is_nemo_available = FALSE
    /\ verify_fails = {}
    /\ env = GoodEnv
    /\ \E n \in 1..MaxChainClips :
          /\ transcripts \in [0..(n - 1) -> ChainTranscripts]
          /\ VoicesNamed(transcripts, oracleMode)
          /\ audio = [k \in 0..(n - 1) |-> GoodAudio]
    /\ files = [q \in {} |-> 0]
    /\ clip_utterances = <<>>
    /\ speaker_identity_map = EmptyMap
    /\ previous_speaker_clips = <<>>
    /\ pc = "ready"
    /\ clip_index = 0
    /\ progress = <<>>
    /\ results = NoResults
    /\ raised = ""
    /\ run = 1
    /\ firstOutcome = [pc |-> "none"]
    /\ assignLog = <<>>
    /\ compareLog = <<>>

SpecChain == ChainInit /\ [][Next]_vars

\* ------------------------------------------- clip_and_store_utterances alone
\* Audio files of two lengths, one whose export fails and one that does not decode
SampleAudioFiles ==
    {[kind |-> "ok", length |-> 10000, export_ok |-> TRUE],
     [kind |-> "ok", length |-> 15000, export_ok |-> TRUE],
     [kind |-> "ok", length |-> 15000, export_ok |-> FALSE],
     [kind |-> "corrupt", length |-> 0, export_ok |-> TRUE]}

\* clip_and_store_utterances applied to the longest monologues of an arbitrary
\* utterance list and an audio file
SampleInit ==
    /\ monoInput \in UttLists(MaxMonoUtt, MonoDurations, MonoGaps, {1})
    /\ monoResult = NotCalled
    /\ sampleAudio \in SampleAudioFiles
    /\ sampleResult = NotSampled
    /\ WebIdle
    /\ oracleMode = "exact"
    /\ is_nemo_available = FALSE
    /\ verify_fails = {}
    /\ env = GoodEnv
    /\ transcripts = [k \in {0} |-> [status |-> "completed", utterances |-> monoInput]]
    /\ audio = [k \in {0} |-> sampleAudio]
    /\ files = [q \in {} |-> 0]
    /\ clip_utterances = <<>>
    /\ speaker_identity_map = EmptyMap
    /\ previous_speaker_clips = <<>>
    /\ pc = "sample"
    /\ clip_index = 0
    /\ progress = <<>>
    /\ results = NoResults
    /\ raised = ""
    /\ run = 1
    /\ firstOutcome = [pc |-> "none"]
    /\ assignLog = <<>>
    /\ compareLog = <<>>

CallClipAndStore ==
    /\ pc = "sample"
    /\ sampleResult = NotSampled
    /\ sampleResult' = clip_and_store_utterances(files, 0, sampleAudio,
                                                  find_longest_monologues(monoInput))
    /\ files' = sampleResult'.files
    /\ UNCHANGED <<monoVars, sampleAudio, webVars, inputVars, selfVars, callVars, histVars>>

SampleNext == CallClipAndStore
SpecSample == SampleInit /\ [][SampleNext]_vars

\* ------------------------------------------- find_longest_monologues alone

\* find_longest_monologues applied to an arbitrary utterance list
MonoInit ==
    /\ monoInput \in UttLists(MaxMonoUtt, MonoDurations, MonoGaps, {1})
    /\ monoResult = NotCalled
    /\ SampleIdle
    /\ WebIdle
    /\ oracleMode = "exact"
    /\ is_nemo_available = FALSE
    /\ verify_fails = {}
    /\ env = GoodEnv
    /\ transcripts = <<>>
    /\ audio = <<>>
    /\ files = [q \in {} |-> 0]
    /\ clip_utterances = <<>>
    /\ speaker_identity_map = EmptyMap
    /\ previous_speaker_clips = <<>>
    /\ pc = "mono"
    /\ clip_index = 0
    /\ progress = <<>>
    /\ results = NoResults
    /\ raised = ""
    /\ run = 1
    /\ firstOutcome = [pc |-> "none"]
    /\ assignLog = <<>>
    /\ compareLog = <<>>

CallFindLongest ==
    /\ monoResult = NotCalled
    /\ monoResult' = find_longest_monologues(monoInput)
    /\ UNCHANGED <<monoInput, sampleVars, webVars, inputVars, selfVars, callVars, histVars, files>>

MonoNext == CallFindLongest
SpecMono == MonoInit /\ [][MonoNext]_vars
====
